---- MODULE Spec2Model ----
(***************************************************************************)
(* Big-Bowl-Elo: Elo rating store of restaurant dishes.                    *)
(*                                                                         *)
(*   restaurant_elo_system.py  RestaurantEloSystem  (simulation driver)    *)
(*   streamlit_app.py          StreamlitEloSystem   (upload path)          *)
(*   consolidate_elo_data.py   extract_chinese_name, consolidate_elo_data  *)
(*                                                                         *)
(* Four specifications share the variables of this module:                 *)
(*   Spec           the two applications updating, saving and reporting    *)
(*                  on a store that starts empty                           *)
(*   SpecIngest     the upload path started on a store file in which a     *)
(*                  rated dish has no games_played entry                   *)
(*   SpecConsolidate  the consolidation script run on an exported file     *)
(*   SpecNormalize  extract_chinese_name applied to a string, then to its  *)
(*                  own result                                             *)
(*                                                                         *)
(* Strings are sequences of one-character strings.  Python floats are      *)
(* modelled as a scaled-down binary floating point: a stored rating is an  *)
(* integer number of rounding units (RScale per rating point), the         *)
(* increment k*(1-Ea) carries Sub times finer precision, and an addition   *)
(* rounds to the nearest rounding unit, ties to even, as IEEE-754 does.    *)
(***************************************************************************)
EXTENDS Integers, Sequences, FiniteSets, TLC

VARIABLES
    app,                \* which program runs the session: "sim" or "upload"
    elo,                \* self.elo: dish -> rating (in rounding units)
    games_played,       \* self.games_played: dish -> number of games
    save_file,          \* contents of elo_ratings.json, or NoFile
    matches,            \* process_matches: parsed matches not yet applied
    ret,                \* what the last process_matches call returned
    last,               \* arguments and locals of the last update_elo call
    n_updates,          \* number of update_elo calls so far
    official_df,        \* generate_ranking_report: the official tier
    provisional_df,     \* generate_ranking_report: the provisional tier
    export_df,          \* upload path: the rows of the exported CSV
    at_call,            \* store and file when the process_matches call that
                        \* has not returned was made
    data,               \* consolidation: the loaded export file
    cpc,                \* consolidation: "idle", "loaded", "done", "error"
    consolidated_elo,   \* consolidation: canonical dish -> rating
    consolidated_games, \* consolidation: canonical dish -> games
    updated_battle_history, \* consolidation: rewritten history
    merged,             \* consolidation: canonical names that were merged
    mismatch,           \* consolidation: dishes reported MISMATCH
    official_dishes,    \* consolidation: printed official ranking
    provisional_dishes, \* consolidation: printed provisional ranking
    out_files,          \* consolidation: the files written, name -> contents
    exc,                \* consolidation: the exception that ended the run
    runs,               \* consolidation: number of runs completed
    dish_name,          \* normalisation: the input string
    name1,              \* normalisation: extract_chinese_name(dish_name)
    name2,              \* normalisation: extract_chinese_name(name1)
    npc                 \* normalisation: "in", "once", "twice"

appVars  == <<app, elo, games_played, save_file, matches, ret, last, n_updates,
              official_df, provisional_df, export_df, at_call>>
consVars == <<data, cpc, consolidated_elo, consolidated_games,
              updated_battle_history, merged, mismatch, official_dishes,
              provisional_dishes, out_files, exc, runs>>
normVars == <<dish_name, name1, name2, npc>>
vars     == <<appVars, consVars, normVars>>

----------------------------------------------------------------------------
(* Bounds *)

MaxUpdates == 3     \* update_elo calls in a behaviour
MaxBatch   == 2     \* matches in one uploaded file
MaxLen     == 6     \* length of the strings given to extract_chinese_name
MaxGames   == 2     \* games_played of a raw key of the exported file
MaxHist    == 2     \* records in the exported battle history

----------------------------------------------------------------------------
(* Strings *)

SP  == " "
TAB == "\t"
BAR == "|"

Chars == {"a", SP, TAB, BAR}

Strings == UNION {[1..n -> Chars] : n \in 0..MaxLen}

Min(S) == CHOOSE x \in S : \A y \in S : x <= y
Max(S) == CHOOSE x \in S : \A y \in S : x >= y

\* ' | ' in dish_name, at position i
IsSepAt(s, i) ==
    /\ i + 2 <= Len(s)
    /\ s[i] = SP /\ s[i + 1] = BAR /\ s[i + 2] = SP

HasSep(s) == \E i \in 1..Len(s) : IsSepAt(s, i)

FirstSep(s) == Min({i \in 1..Len(s) : IsSepAt(s, i)})

IsSpace(c) == c \in {SP, TAB}

\* str.strip(): drop leading and trailing whitespace
Strip(s) ==
    LET keep == {i \in 1..Len(s) : ~IsSpace(s[i])}
    IN  IF keep = {} THEN << >> ELSE SubSeq(s, Min(keep), Max(keep))

\* a plausible slip: the part before the separator is returned untrimmed
extract_chinese_name_nostrip(s) ==
    IF HasSep(s) THEN SubSeq(s, 1, FirstSep(s) - 1) ELSE Strip(s)

\* dish_name.split(' | ')[0].strip() if ' | ' in dish_name else dish_name.strip()
extract_chinese_name(s) ==
    IF HasSep(s) THEN Strip(SubSeq(s, 1, FirstSep(s) - 1)) ELSE Strip(s)

\* Raw dish labels used as match sides and store keys
A  == <<"a">>
AX == <<"a", SP, BAR, SP, "x">>
B  == <<"b">>

\* load_menu: the names of the menu; an entry may hold an alternate name
Menu == {A, AX, B}

\* parse_match_content: the names cut out of the lines of an uploaded file
ParsedNames == {A, AX}

----------------------------------------------------------------------------
(* Floating-point arithmetic of update_elo *)

K      == 32                 \* k=32
RScale == 16                 \* rounding units of a stored rating per point
Sub    == 64                 \* extra precision of an increment
EScale == K * RScale * Sub   \* units of an expected score
PScale == 1000               \* units of a power of ten

InitialRating == 1500 * RScale

\* 10^(1/2), 10^(1/4), ..., 10^(1/256) in units of 1/PScale
Root10 == <<3162, 1778, 1334, 1155, 1075, 1037, 1018, 1009>>

RoundDiv(n, d) == (2 * n + d) \div (2 * d)

\* 10^(b/256) for b in 0..255, by the binary digits of b
RECURSIVE Pow10Frac(_, _)
Pow10Frac(b, i) ==
    IF i > Len(Root10) THEN PScale
    ELSE LET w    == 2 ^ (Len(Root10) - i)
             rest == Pow10Frac(b % w, i + 1)
         IN  IF b \div w = 1 THEN RoundDiv(rest * Root10[i], PScale) ELSE rest

\* 10 ** (d / 400) for a rating difference d >= 0 (in rounding units)
Pow10Pos(d) ==
    LET span == 400 * RScale
        q    == d \div span
        b    == ((d % span) * 256) \div span
    IN  IF q > 3 THEN 100000 * PScale ELSE (10 ^ q) * Pow10Frac(b, 1)

\* 10 ** ((Rb - Ra) / 400)
Pow10(d) ==
    IF d >= 0 THEN Pow10Pos(d) ELSE RoundDiv(PScale * PScale, Pow10Pos(0 - d))

\* Ea = 1 / (1 + 10 ** ((Rb - Ra) / 400)), in units of 1/EScale
ExpectedScore(Ra, Rb) == RoundDiv(EScale * PScale, PScale + Pow10(Rb - Ra))

\* k * x for an expected-score quantity x, in units of 1/(RScale*Sub) point
KTimes(x) == (K * x * RScale * Sub) \div EScale

RoundHalfEven(n, d) ==
    LET q == n \div d
        r == n % d
    IN  IF 2 * r < d THEN q
        ELSE IF 2 * r > d THEN q + 1
        ELSE IF q % 2 = 0 THEN q ELSE q + 1

\* R + inc in floating point: the sum rounded to the precision of a rating
FloatAdd(R, inc) == RoundHalfEven(R * Sub + inc, Sub)

----------------------------------------------------------------------------
(* The rating store *)

Put(f, k, v) == [x \in DOMAIN f \cup {k} |-> IF x = k THEN v ELSE f[x]]

EmptyMap == [x \in {} |-> 0]

\* os.path.exists(self.save_file) is false
NoFile == [exists |-> FALSE, elo |-> EmptyMap, games_played |-> EmptyMap]

NoCall == [winner |-> << >>, loser |-> << >>, Ra |-> 0, Rb |-> 0, Ea |-> 0,
           winner_inc |-> 0, loser_inc |-> 0, path |-> "none"]

\* k * (1 - Ea)
WinnerIncrement(Ea) == KTimes(EScale - Ea)

\* a plausible slip: the loser loses its own expected score k * (0 - Ea)
LoserIncrement_ownscore(Ea) == KTimes(0 - Ea)

\* Eb = 1 - Ea; k * (0 - Eb)
LoserIncrement(Ea) ==
    LET Eb == EScale - Ea
    IN  KTimes(0 - Eb)

\* a plausible slip: only the game of the winner is counted
ApplyMatch_winneronly(e, g, winner, loser) ==
    LET Ra   == e[winner]
        Rb   == e[loser]
        Ea   == ExpectedScore(Ra, Rb)
        incW == WinnerIncrement(Ea)
        incL == LoserIncrement(Ea)
        e1   == [e  EXCEPT ![winner] = FloatAdd(Ra, incW)]
        e2   == [e1 EXCEPT ![loser]  = FloatAdd(Rb, incL)]
        okW  == winner \in DOMAIN g
        g1   == IF okW THEN [g EXCEPT ![winner] = @ + 1] ELSE g
    IN  [elo |-> e2, games_played |-> g1, raised |-> ~okW,
         Ra |-> Ra, Rb |-> Rb, Ea |-> Ea, winner_inc |-> incW, loser_inc |-> incL]

\* self.elo[winner] = Ra + k * (1 - Ea); self.elo[loser] = Rb + k * (0 - Eb)
\* and the two += 1, on a store whose dishes exist
ApplyMatch(e, g, winner, loser) ==
    LET Ra   == e[winner]
        Rb   == e[loser]
        Ea   == ExpectedScore(Ra, Rb)
        incW == WinnerIncrement(Ea)
        incL == LoserIncrement(Ea)
        e1   == [e  EXCEPT ![winner] = FloatAdd(Ra, incW)]
        e2   == [e1 EXCEPT ![loser]  = FloatAdd(Rb, incL)]
        okW  == winner \in DOMAIN g
        g1   == IF okW THEN [g EXCEPT ![winner] = @ + 1] ELSE g
        okL  == okW /\ loser \in DOMAIN g1
        g2   == IF okL THEN [g1 EXCEPT ![loser] = @ + 1] ELSE g1
    IN  [elo |-> e2, games_played |-> g2, raised |-> ~okL,
         Ra |-> Ra, Rb |-> Rb, Ea |-> Ea, winner_inc |-> incW, loser_inc |-> incL]

\* a plausible slip: a new dish starts with one game already counted
InitDish_onegame(s, dish) ==
    IF dish \notin DOMAIN s.elo
    THEN [elo |-> Put(s.elo, dish, InitialRating),
          games_played |-> Put(s.games_played, dish, 1)]
    ELSE s

\* "Initialize dishes if this is their first match"
InitDish(s, dish) ==
    IF dish \notin DOMAIN s.elo
    THEN [elo |-> Put(s.elo, dish, InitialRating),
          games_played |-> Put(s.games_played, dish, 0)]
    ELSE s

\* RestaurantEloSystem.update_elo(winner, loser, k=32)
RestaurantEloSystem_update_elo(e, g, winner, loser) ==
    LET s == InitDish(InitDish([elo |-> e, games_played |-> g], winner), loser)
    IN  ApplyMatch(s.elo, s.games_played, winner, loser)

\* StreamlitEloSystem.update_elo(winner, loser, k=32)
StreamlitEloSystem_update_elo(e, g, winner, loser) ==
    LET s == InitDish(InitDish([elo |-> e, games_played |-> g], winner), loser)
    IN  ApplyMatch(s.elo, s.games_played, winner, loser)

CallRecord(r, winner, loser, path) ==
    [winner |-> winner, loser |-> loser, Ra |-> r.Ra, Rb |-> r.Rb, Ea |-> r.Ea,
     winner_inc |-> r.winner_inc, loser_inc |-> r.loser_inc, path |-> path]

\* save_ratings(): json.dump({'elo': ..., 'games_played': ...})
FileOf(e, g) == [exists |-> TRUE, elo |-> e, games_played |-> g]

----------------------------------------------------------------------------
(* generate_ranking_report and the export of the upload path *)

\* a plausible slip: a dish needs more than 3 games to be official
IsOfficial_above(n) == n > 3

\* if self.games_played[dish] >= 3
IsOfficial(n) == n >= 3

\* if 0 < self.games_played[dish] < 3
IsProvisional(n) == 0 < n /\ n < 3

\* (dish, score, self.games_played[dish]), a row of a data frame
Row(e, g, dish) == [Dish |-> dish, Elo_Score |-> e[dish], Games_Played |-> g[dish]]

\* sort_values(by="Elo Score", ascending=False): quicksort, so that rows of
\* equal score come in any order
SortValues(rows) ==
    {q \in [1..Cardinality(rows) -> rows] :
        /\ \A i, j \in 1..Len(q) : i # j => q[i] # q[j]
        /\ \A i, j \in 1..Len(q) : i < j => q[i].Elo_Score >= q[j].Elo_Score}

\* self.games_played[dish] is read for every dish of self.elo: KeyError
\* when a rated dish has no games_played entry
ReportRaises(e, g) == \E dish \in DOMAIN e : dish \notin DOMAIN g

\* RestaurantEloSystem.generate_ranking_report(): the pairs of data
\* frames it may return on a store on which it does not raise
RestaurantEloSystem_generate_ranking_report(e, g) ==
    [official_df    : SortValues({Row(e, g, dish) :
                          dish \in {d \in DOMAIN e : IsOfficial(g[d])}}),
     provisional_df : SortValues({Row(e, g, dish) :
                          dish \in {d \in DOMAIN e : IsProvisional(g[d])}})]

\* StreamlitEloSystem.generate_ranking_report()
StreamlitEloSystem_generate_ranking_report(e, g) ==
    [official_df    : SortValues({Row(e, g, dish) :
                          dish \in {d \in DOMAIN e : IsOfficial(g[d])}}),
     provisional_df : SortValues({Row(e, g, dish) :
                          dish \in {d \in DOMAIN e : IsProvisional(g[d])}})]

\* round(elo_score, 1), in tenths of a point
Round1(x) == RoundHalfEven(x * 10, RScale)

\* 'Official' if elo_system.games_played[dish] >= 3 else 'Provisional'
ExportStatus(n) == IF n >= 3 THEN "Official" ELSE "Provisional"

\* export_df: one row for every dish of the store, sorted by rounded score
ExportRows(e, g) ==
    SortValues({[Dish |-> dish, Elo_Score |-> Round1(e[dish]),
                 Games_Played |-> g[dish], Status |-> ExportStatus(g[dish])] :
                    dish \in DOMAIN e})

ReportIdle ==
    /\ official_df = << >>
    /\ provisional_df = << >>
    /\ export_df = << >>

\* the data frames of the last report are locals of main(): they are gone
\* when the script runs again, and dead when the next comparison starts
ClearReport ==
    /\ official_df' = << >>
    /\ provisional_df' = << >>
    /\ export_df' = << >>

\* no exception has been raised
NoExc == [type |-> "none", key |-> ""]

\* raise KeyError(key)
KeyError(key) == [type |-> "KeyError", key |-> key]

\* no process_matches call is under way or has raised
NoEntry == [elo |-> EmptyMap, games_played |-> EmptyMap, save_file |-> NoFile]

NoData == [present |-> {}, keys |-> << >>, elo_ratings |-> EmptyMap,
           games_played |-> EmptyMap, battle_history |-> << >>]

ConsVarsIdle ==
    /\ consolidated_elo = EmptyMap
    /\ consolidated_games = EmptyMap
    /\ updated_battle_history = << >>
    /\ merged = {}
    /\ mismatch = {}
    /\ official_dishes = << >>
    /\ provisional_dishes = << >>
    /\ out_files = EmptyMap
    /\ exc = NoExc
    /\ runs = 0

ConsIdle ==
    /\ data = NoData
    /\ cpc = "idle"
    /\ ConsVarsIdle

NormIdle ==
    /\ dish_name = << >>
    /\ name1 = << >>
    /\ name2 = << >>
    /\ npc = "idle"

\* __init__ with no elo_ratings.json: load_ratings gives an empty store
Init ==
    /\ app \in {"sim", "upload"}
    /\ elo = EmptyMap
    /\ games_played = EmptyMap
    /\ save_file = NoFile
    /\ matches = << >>
    /\ ret = "none"
    /\ last = NoCall
    /\ n_updates = 0
    /\ ReportIdle
    /\ at_call = NoEntry
    /\ ConsIdle
    /\ NormIdle

\* run_iteration / main: one simulated comparison followed by update_elo.
\* mock_comparison_result picks the winner at random; the two dishes are
\* two menu entries, or a new dish and a random opponent from the menu.
SimMatch(dish1, dish2, winner) ==
    /\ app = "sim"
    /\ n_updates < MaxUpdates
    /\ LET loser == IF winner = dish1 THEN dish2 ELSE dish1
           r     == RestaurantEloSystem_update_elo(elo, games_played, winner, loser)
       IN  /\ elo' = r.elo
           /\ games_played' = r.games_played
           /\ last' = CallRecord(r, winner, loser, "sim")
    /\ n_updates' = n_updates + 1
    /\ ClearReport
    /\ UNCHANGED <<app, save_file, matches, ret, at_call, consVars, normVars>>

\* RestaurantEloSystem.save_ratings()
SimSave ==
    /\ app = "sim"
    /\ save_file' = FileOf(elo, games_played)
    /\ UNCHANGED <<app, elo, games_played, matches, ret, last, n_updates,
                   official_df, provisional_df, export_df, at_call,
                   consVars, normVars>>

\* process_matches with a file in which no line parses: returns False
ProcessNoMatches ==
    /\ app = "upload"
    /\ matches = << >>
    /\ ret' = "False"
    /\ at_call' = NoEntry
    /\ ClearReport
    /\ UNCHANGED <<app, elo, games_played, save_file, matches, last, n_updates,
                   consVars, normVars>>

\* process_matches: parse_match_content gave the list batch
ProcessMatches(batch) ==
    /\ app = "upload"
    /\ matches = << >>
    /\ batch # << >>
    /\ n_updates + Len(batch) <= MaxUpdates
    /\ matches' = batch
    /\ ret' = "running"
    /\ at_call' = [elo |-> elo, games_played |-> games_played,
                   save_file |-> save_file]
    /\ ClearReport
    /\ UNCHANGED <<app, elo, games_played, save_file, last, n_updates,
                   consVars, normVars>>

\* one turn of the loop of process_matches; after the last match the
\* ratings are saved and the results returned
ProcessStep ==
    /\ app = "upload"
    /\ matches # << >>
    /\ LET winner == Head(matches)[1]
           loser  == Head(matches)[2]
           r      == StreamlitEloSystem_update_elo(elo, games_played, winner, loser)
       IN  /\ elo' = r.elo
           /\ games_played' = r.games_played
           /\ last' = CallRecord(r, winner, loser, "upload")
           /\ IF r.raised
              THEN /\ matches' = << >>
                   /\ ret' = "raised"
                   /\ save_file' = save_file
                   /\ at_call' = at_call
              ELSE /\ matches' = Tail(matches)
                   /\ IF Tail(matches) = << >>
                      THEN /\ save_file' = FileOf(r.elo, r.games_played)
                           /\ ret' = "results"
                           /\ at_call' = NoEntry
                      ELSE /\ save_file' = save_file
                           /\ ret' = ret
                           /\ at_call' = at_call
    /\ n_updates' = n_updates + 1
    /\ UNCHANGED <<app, official_df, provisional_df, export_df,
                   consVars, normVars>>

\* a new session of either program: load_ratings / load_existing_ratings
NewSession(which) ==
    /\ matches = << >>
    /\ app' = which
    /\ IF save_file.exists
       THEN elo' = save_file.elo /\ games_played' = save_file.games_played
       ELSE elo' = EmptyMap /\ games_played' = EmptyMap
    /\ ret' = "none"
    /\ at_call' = NoEntry
    /\ ClearReport
    /\ UNCHANGED <<save_file, matches, last, n_updates, consVars, normVars>>

\* "Reset All Data": remove the file, start from a new StreamlitEloSystem
ResetAllData ==
    /\ app = "upload"
    /\ matches = << >>
    /\ save_file' = NoFile
    /\ elo' = EmptyMap
    /\ games_played' = EmptyMap
    /\ ret' = "none"
    /\ at_call' = NoEntry
    /\ ClearReport
    /\ UNCHANGED <<app, matches, last, n_updates, consVars, normVars>>

\* plot_rankings(): generate_ranking_report() on the store of the
\* simulation driver; main() prints the two data frames it returns
SimReport ==
    /\ app = "sim"
    /\ IF ReportRaises(elo, games_played)
       THEN /\ official_df' = << >>
            /\ provisional_df' = << >>
       ELSE \E r \in RestaurantEloSystem_generate_ranking_report(elo, games_played) :
              /\ official_df' = r.official_df
              /\ provisional_df' = r.provisional_df
    /\ UNCHANGED <<app, elo, games_played, save_file, matches, ret, last,
                   n_updates, export_df, at_call, consVars, normVars>>

\* a run of the script main() of the upload path with no button pressed
\* (also the run started by st.rerun()): the rankings are computed and
\* shown, then the export rows when the store has a dish
RenderPage ==
    /\ app = "upload"
    /\ matches = << >>
    /\ IF ReportRaises(elo, games_played)
       THEN ClearReport
       ELSE /\ \E r \in StreamlitEloSystem_generate_ranking_report(elo, games_played) :
                 /\ official_df' = r.official_df
                 /\ provisional_df' = r.provisional_df
            /\ IF DOMAIN elo # {}
               THEN export_df' \in ExportRows(elo, games_played)
               ELSE export_df' = << >>
    /\ UNCHANGED <<app, elo, games_played, save_file, matches, ret, last,
                   n_updates, at_call, consVars, normVars>>

Batches == UNION {[1..n -> ParsedNames \X ParsedNames] : n \in 1..MaxBatch}

Next ==
    \/ \E d1, d2 \in Menu : \E w \in {d1, d2} : SimMatch(d1, d2, w)
    \/ SimSave
    \/ ProcessNoMatches
    \/ \E batch \in Batches : ProcessMatches(batch)
    \/ ProcessStep
    \/ \E which \in {"sim", "upload"} : NewSession(which)
    \/ ResetAllData
    \/ SimReport
    \/ RenderPage

Spec == Init /\ [][Next]_vars

----------------------------------------------------------------------------
(* The upload path started on a store file it did not write *)

\* elo_ratings.json as a session finds it: load_existing_ratings takes
\* data.get('elo', {}) and data.get('games_played', {}) as they are, so a
\* file whose 'games_played' is absent or lacks a rated dish is accepted
StoreFiles ==
    UNION {{FileOf([d \in S |-> InitialRating], [d \in T |-> 1]) :
                T \in SUBSET S \ {S}} : S \in SUBSET ParsedNames \ {{}}}

InitIngest ==
    /\ app = "upload"
    /\ save_file \in StoreFiles
    /\ elo = save_file.elo
    /\ games_played = save_file.games_played
    /\ matches = << >>
    /\ ret = "none"
    /\ last = NoCall
    /\ n_updates = 0
    /\ ReportIdle
    /\ at_call = NoEntry
    /\ ConsIdle
    /\ NormIdle

NextIngest ==
    \/ ProcessNoMatches
    \/ \E batch \in Batches : ProcessMatches(batch)
    \/ ProcessStep
    \/ NewSession("upload")
    \/ ResetAllData
    \/ RenderPage

SpecIngest == InitIngest /\ [][NextIngest]_vars

----------------------------------------------------------------------------
(* consolidate_elo_data *)

ConsLabels == {A, AX, B}

TopKeys == {"elo_ratings", "games_played", "battle_history"}

Range(q) == {q[i] : i \in 1..Len(q)}

\* a plausible slip: the history is read with data.get('battle_history', [])
FirstMissingKey_gethistory(present) ==
    IF "elo_ratings" \notin present THEN "elo_ratings"
    ELSE IF "games_played" \notin present THEN "games_played"
    ELSE "none"

\* data['elo_ratings'], data['games_played'], data['battle_history'] are
\* read in this order: the key of the first read that fails, or "none"
FirstMissingKey(present) ==
    IF "elo_ratings" \notin present THEN "elo_ratings"
    ELSE IF "games_played" \notin present THEN "games_played"
    ELSE IF "battle_history" \notin present THEN "battle_history"
    ELSE "none"

\* key orders of the exported elo_ratings object (a JSON object keeps its
\* order); the two variants of "a" come in either order, and "b", which has
\* no other variant and whose position plays no part, comes last
KeySeqs ==
    {q \in UNION {[1..n -> ConsLabels] : n \in 0..Cardinality(ConsLabels)} :
        /\ \A i, j \in 1..Len(q) : i # j => q[i] # q[j]
        /\ \A i \in 1..Len(q) : q[i] = B => i = Len(q)}

\* exported ratings: a different one for every raw key, so that a
\* consolidated rating tells which variant it was taken from
RawRating == (A :> 1600 * RScale) @@ (AX :> 1550 * RScale) @@ (B :> 1500 * RScale)

\* winner and loser of an exported battle: two variants of one dish, a
\* variant against another dish, two plain names, one name on both sides
BattlePairs == {<<A, AX>>, <<AX, B>>, <<B, A>>, <<A, A>>}

Histories == UNION {[1..n -> BattlePairs] : n \in 0..MaxHist}

\* battle records carry one more field, passed through by consolidation
Battles(h) == [i \in 1..Len(h) |-> [winner |-> h[i][1], loser |-> h[i][2], ts |-> i]]

\* games_played.get(d, 0)
GetGames(g, d) == IF d \in DOMAIN g THEN g[d] ELSE 0

\* [dish for dish in elo_ratings.keys() if extract_chinese_name(dish) == chinese_name]
Variants(keys, chinese_name) ==
    SelectSeq(keys, LAMBDA dish : extract_chinese_name(dish) = chinese_name)

\* a plausible slip: the first variant is kept whatever its games
BestVariant_first(variants, g) == variants[1]

\* a plausible slip: among variants of equal games the last one is kept
BestVariant_last(variants, g) ==
    variants[Max({i \in 1..Len(variants) :
                    \A j \in 1..Len(variants) :
                        GetGames(g, variants[i]) >= GetGames(g, variants[j])})]

\* max(variants, key=lambda d: games_played.get(d, 0)): the first maximum
BestVariant(variants, g) ==
    variants[Min({i \in 1..Len(variants) :
                    \A j \in 1..Len(variants) :
                        GetGames(g, variants[i]) >= GetGames(g, variants[j])})]

\* a plausible slip: only the games of the kept variant are carried over
TotalGames_best(variants, g) == GetGames(g, BestVariant(variants, g))

\* sum(games_played.get(variant, 0) for variant in variants)
RECURSIVE TotalGames(_, _)
TotalGames(variants, g) ==
    IF variants = << >> THEN 0
    ELSE GetGames(g, Head(variants)) + TotalGames(Tail(variants), g)

\* chinese_names
ChineseNames(keys) == {extract_chinese_name(keys[i]) : i \in 1..Len(keys)}

\* the single-variant branch reads games_played[dish]: KeyError when absent
ConsolidationRaises(d) ==
    \E c \in ChineseNames(d.keys) :
        LET v == Variants(d.keys, c)
        IN  Len(v) = 1 /\ v[1] \notin DOMAIN d.games_played

ConsolidatedElo(d) ==
    [c \in ChineseNames(d.keys) |->
        LET v == Variants(d.keys, c)
        IN  IF Len(v) = 1 THEN d.elo_ratings[v[1]]
            ELSE d.elo_ratings[BestVariant(v, d.games_played)]]

\* a plausible slip: the verification pass corrects the games, which become
\* the appearance counts of the rewritten history
ConsolidatedGames_recount(d) ==
    [c \in ChineseNames(d.keys) |->
        Cardinality({i \in 1..Len(d.battle_history) :
                        extract_chinese_name(d.battle_history[i].winner) = c})
            + Cardinality({i \in 1..Len(d.battle_history) :
                        extract_chinese_name(d.battle_history[i].loser) = c})]

ConsolidatedGames(d) ==
    [c \in ChineseNames(d.keys) |->
        LET v == Variants(d.keys, c)
        IN  IF Len(v) = 1 THEN d.games_played[v[1]]
            ELSE TotalGames(v, d.games_played)]

Merged(d) == {c \in ChineseNames(d.keys) : Len(Variants(d.keys, c)) > 1}

\* a plausible slip: the two sides are exchanged while being rewritten
RewriteBattles_swapped(h) ==
    [raw     |-> h,
     updated |-> [i \in 1..Len(h) |->
                    [h[i] EXCEPT !.winner = extract_chinese_name(h[i].loser),
                                 !.loser  = extract_chinese_name(h[i].winner)]]]

\* a plausible slip: the record is rewritten in place, without battle.copy()
RewriteBattles_inplace(h) ==
    LET u == [i \in 1..Len(h) |->
                [h[i] EXCEPT !.winner = extract_chinese_name(h[i].winner),
                             !.loser  = extract_chinese_name(h[i].loser)]]
    IN  [raw |-> u, updated |-> u]

\* updated_battle = battle.copy(); its winner and loser are replaced by
\* their Chinese names; the records of battle_history stay as they are
RewriteBattles(h) ==
    [raw     |-> h,
     updated |-> [i \in 1..Len(h) |->
                    [h[i] EXCEPT !.winner = extract_chinese_name(h[i].winner),
                                 !.loser  = extract_chinese_name(h[i].loser)]]]

\* battle_counts[dish]: one for every side of a record that is the dish
BattleCount(h, dish) ==
    Cardinality({i \in 1..Len(h) : h[i].winner = dish})
        + Cardinality({i \in 1..Len(h) : h[i].loser = dish})

\* the dishes printed with status MISMATCH
Mismatches(games, h) ==
    {dish \in DOMAIN games : BattleCount(h, dish) # games[dish]}

\* sorted(consolidated_elo.items(), key=lambda x: x[1], reverse=True): the
\* items come in the iteration order of a set, so equal scores come in any order
SortedDishes(e) ==
    {q \in [1..Cardinality(DOMAIN e) -> DOMAIN e] :
        /\ \A i, j \in 1..Len(q) : i # j => q[i] # q[j]
        /\ \A i, j \in 1..Len(q) : i < j => e[q[i]] >= e[q[j]]}

AppIdle ==
    /\ app = "none"
    /\ elo = EmptyMap
    /\ games_played = EmptyMap
    /\ save_file = NoFile
    /\ matches = << >>
    /\ ret = "none"
    /\ last = NoCall
    /\ n_updates = 0
    /\ ReportIdle
    /\ at_call = NoEntry

\* the exported file elo_data_*.json as json.load returns it; a file may
\* lack some of its top-level keys, and games_played may lack some dishes
InitConsolidate ==
    /\ \E keys \in KeySeqs, h \in Histories,
          present \in SUBSET TopKeys :
         \E gdom \in SUBSET Range(keys) :
           \E g \in [gdom -> 0..MaxGames] :
             /\ "elo_ratings" \notin present => keys = << >>
             /\ "games_played" \notin present => gdom = {}
             /\ "battle_history" \notin present => h = << >>
             /\ data = [present        |-> present,
                        keys           |-> keys,
                        elo_ratings    |-> [k \in Range(keys) |-> RawRating[k]],
                        games_played   |-> g,
                        battle_history |-> Battles(h)]
    /\ cpc = "loaded"
    /\ ConsVarsIdle
    /\ AppIdle
    /\ NormIdle

\* data['elo_ratings'], data['games_played'] or data['battle_history']
\* raises KeyError: nothing is consolidated, nothing is written
ConsolidateMissingKey ==
    /\ cpc = "loaded"
    /\ FirstMissingKey(data.present) # "none"
    /\ exc' = KeyError(FirstMissingKey(data.present))
    /\ cpc' = "error"
    /\ UNCHANGED <<data, consolidated_elo, consolidated_games,
                   updated_battle_history, merged, mismatch, official_dishes,
                   provisional_dishes, out_files, runs, appVars, normVars>>

\* games_played[dish] raises KeyError in the loop over chinese_names
ConsolidateKeyError ==
    /\ cpc = "loaded"
    /\ FirstMissingKey(data.present) = "none"
    /\ ConsolidationRaises(data)
    /\ \E c \in ChineseNames(data.keys) :
         LET v == Variants(data.keys, c)
         IN  /\ Len(v) = 1 /\ v[1] \notin DOMAIN data.games_played
             /\ exc' = KeyError(v[1])
    /\ cpc' = "error"
    /\ UNCHANGED <<data, consolidated_elo, consolidated_games,
                   updated_battle_history, merged, mismatch, official_dishes,
                   provisional_dishes, out_files, runs, appVars, normVars>>

\* consolidate_elo_data() running to its return
Consolidate ==
    /\ cpc = "loaded"
    /\ FirstMissingKey(data.present) = "none"
    /\ ~ConsolidationRaises(data)
    /\ LET ce == ConsolidatedElo(data)
           cg == ConsolidatedGames(data)
           rw == RewriteBattles(data.battle_history)
       IN  /\ consolidated_elo' = ce
           /\ consolidated_games' = cg
           /\ merged' = Merged(data)
           /\ data' = [data EXCEPT !.battle_history = rw.raw]
           /\ updated_battle_history' = rw.updated
           /\ mismatch' = Mismatches(cg, rw.updated)
           /\ \E sorted_dishes \in SortedDishes(ce) :
                /\ official_dishes' =
                       SelectSeq(sorted_dishes, LAMBDA dish : cg[dish] >= 3)
                /\ provisional_dishes' =
                       SelectSeq(sorted_dishes, LAMBDA dish : cg[dish] < 3)
           /\ out_files' =
                  ("elo_ratings.json" :> [elo |-> ce, games_played |-> cg])
                      @@ ("battle_history.json" :> rw.updated)
    /\ cpc' = "done"
    /\ runs' = runs + 1
    /\ UNCHANGED <<exc, appVars, normVars>>

\* the consolidated ratings, games and history are exported again and given
\* to the script as its next input; the keys come in any order
ExportConsolidated ==
    /\ cpc = "done"
    /\ runs = 1
    /\ \E keys \in SortedDishes([c \in DOMAIN consolidated_elo |-> 0]) :
         data' = [present        |-> TopKeys,
                  keys           |-> keys,
                  elo_ratings    |-> consolidated_elo,
                  games_played   |-> consolidated_games,
                  battle_history |-> updated_battle_history]
    /\ cpc' = "loaded"
    /\ UNCHANGED <<consolidated_elo, consolidated_games, updated_battle_history,
                   merged, mismatch, official_dishes, provisional_dishes,
                   out_files, exc, runs, appVars, normVars>>

NextConsolidate ==
    \/ ConsolidateMissingKey
    \/ ConsolidateKeyError
    \/ Consolidate
    \/ ExportConsolidated

SpecConsolidate == InitConsolidate /\ [][NextConsolidate]_vars

----------------------------------------------------------------------------
(* extract_chinese_name on its own *)

InitNormalize ==
    /\ dish_name \in Strings
    /\ name1 = << >>
    /\ name2 = << >>
    /\ npc = "in"
    /\ AppIdle
    /\ ConsIdle

NormalizeOnce ==
    /\ npc = "in"
    /\ name1' = extract_chinese_name(dish_name)
    /\ npc' = "once"
    /\ UNCHANGED <<dish_name, name2, appVars, consVars>>

NormalizeTwice ==
    /\ npc = "once"
    /\ name2' = extract_chinese_name(name1)
    /\ npc' = "twice"
    /\ UNCHANGED <<dish_name, name1, appVars, consVars>>

NextNormalize == NormalizeOnce \/ NormalizeTwice

SpecNormalize == InitNormalize /\ [][NextNormalize]_vars

----------------------------------------------------------------------------
(* Properties *)

\* an update_elo call has just been made; last' holds its arguments
UpdateCall == n_updates' = n_updates + 1

\* rating and games of a dish, an absent dish counting as 1500 and 0
RatingOf(e, dish) == IF dish \in DOMAIN e THEN e[dish] ELSE 1500 * RScale
GamesOf(g, dish)  == IF dish \in DOMAIN g THEN g[dish] ELSE 0

\* C1: every update call raises games_played of the winner and of the
\* loser by exactly 1, an absent dish counting as 0 before the call.
C1_GamesPlusOne ==
    [][UpdateCall =>
        /\ GamesOf(games_played', last'.winner)
               = GamesOf(games_played, last'.winner) + 1
        /\ GamesOf(games_played', last'.loser)
               = GamesOf(games_played, last'.loser) + 1]_vars

\* C2: a match whose winner and loser are the same identity after
\* normalization is rejected: no rating and no games_played changes, and
\* the remaining matches of the batch are still applied.
C2_SelfMatchRejected ==
    [][(UpdateCall /\ extract_chinese_name(last'.winner)
                          = extract_chinese_name(last'.loser)) =>
        /\ elo' = elo
        /\ games_played' = games_played
        /\ last'.path = "upload" => matches' = Tail(matches)]_vars

C4_FreshDishCreated ==
    [][UpdateCall =>
        LET w  == last'.winner
            l  == last'.loser
            ds == DOMAIN elo \cup {w, l}
            e0 == [d \in ds |-> RatingOf(elo, d)]
            g0 == [d \in ds |-> GamesOf(games_played, d)]
            r  == ApplyMatch(e0, g0, w, l)
        IN  /\ elo' = r.elo
            /\ games_played' = r.games_played
            /\ (w \notin DOMAIN elo /\ l \notin DOMAIN elo /\ w # l) =>
                  /\ elo'[w] = 1516 * RScale
                  /\ elo'[l] = 1484 * RScale
                  /\ games_played'[w] = 1
                  /\ games_played'[l] = 1]_vars

\* the first update of a store was between two fresh dishes
C4_Witness ==
    /\ n_updates = 1
    /\ last.winner # last.loser
    /\ DOMAIN elo = {last.winner, last.loser}
    /\ elo[last.winner] = 1516 * RScale
    /\ elo[last.loser] = 1484 * RScale
    /\ games_played[last.winner] = 1
    /\ games_played[last.loser] = 1

\* C5: every key of the rating map and of the games_played map is a
\* canonical identity, equal to its own normalization.
C5_KeysCanonical ==
    \A dish \in DOMAIN elo \cup DOMAIN games_played :
        extract_chinese_name(dish) = dish

RECURSIVE SumGames(_, _)
SumGames(S, g) ==
    IF S = {} THEN 0
    ELSE LET d == CHOOSE x \in S : TRUE
         IN  GetGames(g, d) + SumGames(S \ {d}, g)

\* the raw keys of the loaded file that normalize to the canonical name c
RawVariants(c) == {k \in DOMAIN data.elo_ratings : extract_chinese_name(k) = c}

\* C6: a canonical identity with one raw key copies its rating and games;
\* with several raw keys it takes the rating of a variant with the largest
\* games_played and the sum of the games_played of all its variants.
C6_ConsolidatedRecord ==
    cpc = "done" =>
        /\ DOMAIN consolidated_elo
               = {extract_chinese_name(k) : k \in DOMAIN data.elo_ratings}
        /\ DOMAIN consolidated_games = DOMAIN consolidated_elo
        /\ \A c \in DOMAIN consolidated_elo :
             IF Cardinality(RawVariants(c)) = 1
             THEN \A k \in RawVariants(c) :
                    /\ consolidated_elo[c] = data.elo_ratings[k]
                    /\ consolidated_games[c] = data.games_played[k]
             ELSE /\ \E v \in RawVariants(c) :
                       /\ \A u \in RawVariants(c) :
                            GetGames(data.games_played, v)
                                >= GetGames(data.games_played, u)
                       /\ consolidated_elo[c] = data.elo_ratings[v]
                  /\ consolidated_games[c]
                         = SumGames(RawVariants(c), data.games_played)

\* "a | x" with 1 game comes before "a" with 2 games: "a" keeps the rating
\* of the 2-game variant and has 3 games; "b" is copied
C6_Witness ==
    /\ cpc = "done"
    /\ runs = 1
    /\ data.keys = <<AX, A, B>>
    /\ data.games_played = (AX :> 1) @@ (A :> 2) @@ (B :> 1)
    /\ consolidated_elo = (A :> 1600 * RScale) @@ (B :> 1500 * RScale)
    /\ consolidated_games = (A :> 3) @@ (B :> 1)

\* the number of records in which the dish is the winner or the loser
RecordCount(h, dish) ==
    Cardinality({i \in 1..Len(h) : h[i].winner = dish \/ h[i].loser = dish})

\* every identity of the raw history is a raw key, and the games_played of
\* every raw key is its count in the raw history
RawConsistent(Count(_, _)) ==
    /\ DOMAIN data.games_played = DOMAIN data.elo_ratings
    /\ \A i \in 1..Len(data.battle_history) :
         /\ data.battle_history[i].winner \in DOMAIN data.elo_ratings
         /\ data.battle_history[i].loser \in DOMAIN data.elo_ratings
    /\ \A k \in DOMAIN data.elo_ratings :
         data.games_played[k] = Count(data.battle_history, k)

\* C7 as stated: after consolidation games_played of every dish is the
\* number of rewritten records in which it is winner or loser, whenever the
\* raw store had that equality against the raw history.
C7_GamesEqualRecords ==
    (cpc = "done" /\ RawConsistent(RecordCount)) =>
        \A c \in DOMAIN consolidated_games :
            consolidated_games[c] = RecordCount(updated_battle_history, c)

\* C7 amended: after consolidation games_played of every dish is the number
\* of its appearances in the rewritten history, a record counting once for
\* its winner and once for its loser (twice when both are the dish),
\* whenever the raw store had that equality against the raw history.
C7_GamesEqualAppearances ==
    (cpc = "done" /\ RawConsistent(BattleCount)) =>
        \A c \in DOMAIN consolidated_games :
            consolidated_games[c] = BattleCount(updated_battle_history, c)

\* a consistent raw store whose history has a match between two variants
\* of one dish has been consolidated
C7_Witness ==
    /\ cpc = "done"
    /\ runs = 1
    /\ RawConsistent(BattleCount)
    /\ merged # {}
    /\ \E i \in 1..Len(updated_battle_history) :
         /\ updated_battle_history[i].winner = updated_battle_history[i].loser
         /\ data.battle_history[i].winner # data.battle_history[i].loser

\* C8: the rewritten history has the length and order of the raw one, its
\* winners and losers are the normalized raw ones (none holds ' | '), the
\* other field is passed through, and the raw records are not modified.
C8_HistoryRewritten ==
    [][(cpc = "loaded" /\ cpc' = "done") =>
        LET raw == data.battle_history
            new == updated_battle_history'
        IN  /\ Len(new) = Len(raw)
            /\ \A i \in 1..Len(raw) :
                 /\ new[i].winner = extract_chinese_name(raw[i].winner)
                 /\ new[i].loser = extract_chinese_name(raw[i].loser)
                 /\ new[i].ts = raw[i].ts
                 /\ DOMAIN new[i] = DOMAIN raw[i]
                 /\ ~HasSep(new[i].winner) /\ ~HasSep(new[i].loser)
            /\ data'.battle_history = raw]_vars

\* a history of two records, the first won by "a | x", has been rewritten
C8_Witness ==
    /\ cpc = "done"
    /\ runs = 1
    /\ Len(data.battle_history) = 2
    /\ data.battle_history[1].winner = AX
    /\ data.battle_history[2].loser = AX
    /\ updated_battle_history[1] = [winner |-> A, loser |-> B, ts |-> 1]
    /\ updated_battle_history[2] = [winner |-> A, loser |-> A, ts |-> 2]

\* C9: a second run on the output of a first run merges nothing and
\* returns ratings, games_played and history identical to its input.
C9_SecondRunIdentity ==
    (cpc = "done" /\ runs = 2) =>
        /\ merged = {}
        /\ consolidated_elo = data.elo_ratings
        /\ consolidated_games = data.games_played
        /\ updated_battle_history = data.battle_history

\* the second run has ended on a store in which the first run had merged
\* variants (no raw key has that many games) and rewritten a history
C9_Witness ==
    /\ cpc = "done"
    /\ runs = 2
    /\ \E c \in DOMAIN consolidated_games : consolidated_games[c] > MaxGames
    /\ Cardinality(DOMAIN consolidated_elo) = 2
    /\ updated_battle_history # << >>

\* the part of s before its first ' | ', or all of s
BeforeSep(s) ==
    IF \E i \in 1..Len(s) : IsSepAt(s, i)
    THEN SubSeq(s, 1, (CHOOSE i \in 1..Len(s) :
                          /\ IsSepAt(s, i)
                          /\ \A j \in 1..(i - 1) : ~IsSepAt(s, j)) - 1)
    ELSE s

\* t is s without its leading and trailing whitespace
IsTrimOf(t, s) ==
    /\ t # << >> => ~IsSpace(t[1]) /\ ~IsSpace(t[Len(t)])
    /\ \E i \in 1..(Len(s) + 1) :
         /\ i + Len(t) - 1 <= Len(s)
         /\ SubSeq(s, i, i + Len(t) - 1) = t
         /\ \A j \in 1..Len(s) : (j < i \/ j > i + Len(t) - 1) => IsSpace(s[j])

\* C10: normalize returns the part before the first ' | ', trimmed (the
\* whole input trimmed when there is none), and normalizing twice gives
\* the same as normalizing once.
C10_NormalizeIdempotent ==
    /\ npc \in {"once", "twice"} => IsTrimOf(name1, BeforeSep(dish_name))
    /\ npc = "twice" => name2 = name1

\* a string with two separators and only whitespace before the first, so
\* that its canonical part is empty, has been normalized twice
C10_Witness ==
    /\ npc = "twice"
    /\ dish_name = <<TAB, SP, BAR, SP, BAR, SP>>
    /\ Cardinality({i \in 1..Len(dish_name) : IsSepAt(dish_name, i)}) = 2
    /\ name1 = << >>
    /\ name2 = << >>

\* C11: a dish whose games_played is 0 is in no tier, wherever tiers are
\* computed: the report of either program, the rows of the export of the
\* upload path, and the two rankings printed at the end of consolidation.
C11_ZeroGamesInNoTier ==
    /\ \A i \in 1..Len(official_df) : official_df[i].Games_Played # 0
    /\ \A i \in 1..Len(provisional_df) : provisional_df[i].Games_Played # 0
    /\ \A i \in 1..Len(export_df) : export_df[i].Games_Played # 0
    /\ cpc = "done" =>
          \A dish \in Range(official_dishes) \cup Range(provisional_dishes) :
              consolidated_games[dish] # 0

\* generate_ranking_report has just returned at least one row
ReportCall ==
    /\ <<official_df', provisional_df'>> # <<official_df, provisional_df>>
    /\ <<official_df', provisional_df'>> # << << >>, << >> >>

DishesOf(df) == {df[i].Dish : i \in 1..Len(df)}

\* the rows of df are those of different dishes, hold the rating and the
\* games_played of the store, and come from the highest rating to the lowest
TierRows(df, e, g) ==
    /\ \A i, j \in 1..Len(df) : i # j => df[i].Dish # df[j].Dish
    /\ \A i \in 1..Len(df) :
         /\ df[i].Elo_Score = e[df[i].Dish]
         /\ df[i].Games_Played = g[df[i].Dish]
    /\ \A i, j \in 1..Len(df) : i < j => e[df[i].Dish] >= e[df[j].Dish]

\* C12: a report holds in its official tier exactly the dishes with
\* games_played >= 3 and in its provisional tier exactly those with 1 or 2
\* games, so that no dish is in both and a dish with exactly 3 games is
\* official; each tier comes from the highest rating to the lowest; the
\* report leaves ratings and games_played as they were.
C12_TiersByGames ==
    [][ReportCall =>
        /\ DishesOf(official_df') = {d \in DOMAIN elo : games_played[d] >= 3}
        /\ DishesOf(provisional_df') = {d \in DOMAIN elo : games_played[d] \in {1, 2}}
        /\ DishesOf(official_df') \cap DishesOf(provisional_df') = {}
        /\ \A d \in DOMAIN elo :
             games_played[d] = 3 =>
                 d \in DishesOf(official_df') /\ d \notin DishesOf(provisional_df')
        /\ TierRows(official_df', elo, games_played)
        /\ TierRows(provisional_df', elo, games_played)
        /\ elo' = elo
        /\ games_played' = games_played]_vars

\* a report on a store with a dish of exactly 3 games, which is official,
\* and two dishes of 2 and 1 games and different ratings, which are
\* provisional, the higher rated first
C12_Witness ==
    /\ Len(official_df) = 1
    /\ official_df[1].Games_Played = 3
    /\ games_played[official_df[1].Dish] = 3
    /\ Len(provisional_df) = 2
    /\ {provisional_df[1].Games_Played, provisional_df[2].Games_Played} = {1, 2}
    /\ provisional_df[1].Elo_Score > provisional_df[2].Elo_Score

\* C13: a run on an input that lacks a top-level key ends with an error
\* that names an absent key; it consolidates nothing and writes no file.
C13_MissingKeyFails ==
    [][(cpc = "loaded" /\ data.present # TopKeys) =>
        /\ cpc' = "error"
        /\ exc'.type = "KeyError"
        /\ exc'.key \in TopKeys \ data.present
        /\ out_files' = EmptyMap
        /\ consolidated_elo' = EmptyMap
        /\ consolidated_games' = EmptyMap
        /\ updated_battle_history' = << >>
        /\ runs' = 0]_vars

\* a run has failed on an input whose only absent key is the history
C13_Witness ==
    /\ cpc = "error"
    /\ data.present = TopKeys \ {"battle_history"}
    /\ data.keys # << >>
    /\ exc = KeyError("battle_history")
    /\ out_files = EmptyMap

\* C14: when a process_matches call has raised, the store file and the
\* ratings and games_played in memory are those found when it was called.
C14_IngestionAtomic ==
    ret = "raised" =>
        /\ save_file = at_call.save_file
        /\ elo = at_call.elo
        /\ games_played = at_call.games_played

\* the games_played of the raw keys that normalize to c, added up
MergedGames(c) == SumGames(RawVariants(c), data.games_played)

\* C15: the verification pass only reports. A dish whose merged games
\* (the sum over its variants) differ from its appearance count in the
\* rewritten history is reported, and the games_played returned and
\* written for it are still the merged games; the consolidated ratings and
\* the rewritten history are returned and written all the same.
C15_VerificationReportOnly ==
    cpc = "done" =>
        /\ \A c \in DOMAIN consolidated_elo :
             MergedGames(c) # BattleCount(updated_battle_history, c) =>
                 /\ c \in mismatch
                 /\ consolidated_games[c] = MergedGames(c)
                 /\ out_files["elo_ratings.json"].games_played[c] = MergedGames(c)
        /\ DOMAIN out_files = {"elo_ratings.json", "battle_history.json"}
        /\ out_files["elo_ratings.json"]
               = [elo |-> consolidated_elo, games_played |-> consolidated_games]
        /\ out_files["battle_history.json"] = updated_battle_history
        /\ DOMAIN consolidated_elo = DOMAIN consolidated_games
        /\ Len(updated_battle_history) = Len(data.battle_history)

\* the merged dish "a" has 3 games and appears once in the rewritten
\* history: it is reported, and written with 3 games
C15_Witness ==
    /\ cpc = "done"
    /\ runs = 1
    /\ A \in mismatch
    /\ A \in merged
    /\ consolidated_games[A] = 3
    /\ BattleCount(updated_battle_history, A) = 1
    /\ out_files["elo_ratings.json"].games_played[A] = 3
    /\ out_files["battle_history.json"] # << >>

\* the place of the raw key k in the order of the keys of the input
KeyIndex(k) == CHOOSE i \in 1..Len(data.keys) : data.keys[i] = k

\* C16: the rating of a merged dish is that of one variant fixed by the
\* input: a variant of largest games_played, a variant absent from
\* games_played counting as 0, and among those of largest games_played the
\* one that comes first in the order of the raw ratings keys.
C16_CarriedVariantDetermined ==
    cpc = "done" =>
        \A c \in merged :
            \E k \in RawVariants(c) :
                /\ \A u \in RawVariants(c) :
                     /\ GetGames(data.games_played, k)
                            >= GetGames(data.games_played, u)
                     /\ GetGames(data.games_played, u)
                            = GetGames(data.games_played, k)
                                => KeyIndex(k) <= KeyIndex(u)
                /\ consolidated_elo[c] = data.elo_ratings[k]

\* "a | x" comes before "a" and both have 2 games: the rating kept is that
\* of "a | x"
C16_Witness ==
    /\ cpc = "done"
    /\ runs = 1
    /\ data.keys = <<AX, A, B>>
    /\ GetGames(data.games_played, AX) = 2
    /\ GetGames(data.games_played, A) = 2
    /\ consolidated_elo[A] = data.elo_ratings[AX]
    /\ data.elo_ratings[AX] # data.elo_ratings[A]

\* sum(games_played.values())
TotalGamesPlayed(g) == SumGames(DOMAIN g, g)

\* C17: from the empty store on, after every step the rating map and the
\* games_played map have the same keys and every key has at least one
\* game; an update call adds exactly 2 to the sum of all games_played (the
\* sum is 0 in the empty store, so it is twice the number of update calls
\* made on the store), and changes the rating and the games_played of no
\* dish other than its winner and its loser.
C17_StoreWellFormed ==
    [][/\ DOMAIN elo' = DOMAIN games_played'
       /\ \A d \in DOMAIN games_played' : games_played'[d] >= 1
       /\ UpdateCall =>
            /\ TotalGamesPlayed(games_played') = TotalGamesPlayed(games_played) + 2
            /\ DOMAIN elo' = DOMAIN elo \cup {last'.winner, last'.loser}
            /\ \A d \in DOMAIN elo \ {last'.winner, last'.loser} :
                 /\ elo'[d] = elo[d]
                 /\ games_played'[d] = games_played[d]]_vars

\* three update calls on the empty store, the last between two different
\* dishes with a third dish in the store: the games add up to 6
C17_Witness ==
    /\ n_updates = 3
    /\ last.winner # last.loser
    /\ Cardinality(DOMAIN elo) = 3
    /\ DOMAIN games_played = DOMAIN elo
    /\ TotalGamesPlayed(games_played) = 2 * n_updates

====
